---------------------------- MODULE Spec2Model ----------------------------
(***************************************************************************)
(* Model of linux-hs-elf (src/src/main.rs): the directory scan of main,    *)
(* get_needed_libs and extract_libs, together with the behaviour of the    *)
(* `object` crate calls they make (FileKind::parse, FileHeader64::parse,   *)
(* SectionTable::dynamic, StringTable::new / get).                         *)
(*                                                                         *)
(* Integers are scaled down: u32 is U32Bits wide and u64 is U64Bits wide,  *)
(* so that "does not fit in u32" and "u64 addition overflows" both occur   *)
(* on small numbers.                                                       *)
(***************************************************************************)
EXTENDS Integers, Sequences, FiniteSets, TLC

\* ------------------------------------------------------------- bounds
U32Bits == 4
U64Bits == U32Bits + 2
MaxDyn == 3
MaxFiles == 3

U32Max == 2 ^ U32Bits - 1
U64Max == 2 ^ U64Bits - 1

\* ------------------------------------------------- program constants
DT_NULL == 0
DT_NEEDED == 1
DT_STRTAB == 5
DT_STRSZ == 10
ELFCLASS32 == 1
ELFCLASS64 == 2

\* A d_tag that does not fit in u32; its low bits equal DT_NEEDED.
BigTag == U32Max + 1 + DT_NEEDED
\* A d_val that does not fit in u32.
BigVal == U32Max + 1

\* ------------------------------------------------------ file contents
\* bin_data of a file, as seen by StringTable: "a\0\xFFb\0c" and "ab".
Buf1 == <<97, 0, 255, 98, 0, 99>>
Buf2 == <<97, 98>>
Buffers == {Buf1, Buf2}

Dyn(t, v) == [tag |-> t, val |-> v]

NeededVals == {0, 2, 5, BigVal}
StrtabVals == {0, 1, U64Max}
StrszVals == {1, 5, U64Max}

DynEntries ==
    {Dyn(DT_NEEDED, v) : v \in NeededVals}
        \cup {Dyn(DT_STRTAB, v) : v \in StrtabVals}
        \cup {Dyn(DT_STRSZ, v) : v \in StrszVals}
        \cup {Dyn(DT_NULL, 0), Dyn(BigTag, 0)}

SeqUpTo(S, n) == UNION {[1..k -> S] : k \in 0..n}

\* A directory entry and the file behind it.  A well-formed ELF64 object
\* with an empty dynamic section is the base every other entry varies.
BaseFile ==
    [name |-> 1, name_utf8 |-> TRUE, entry_ok |-> TRUE, readable |-> TRUE,
     magic |-> "elf", class |-> ELFCLASS64, hdr_ok |-> TRUE,
     sections_ok |-> TRUE, dynamic |-> "some", dyn |-> <<>>, data |-> Buf1]

ElfWith(c, d, b) == [BaseFile EXCEPT !.class = c, !.dyn = d, !.data = b]

\* Entries that fail before the dynamic section is scanned.
BrokenFiles ==
    {[BaseFile EXCEPT !.entry_ok = FALSE],
     [BaseFile EXCEPT !.readable = FALSE],
     [BaseFile EXCEPT !.magic = "short"],
     [BaseFile EXCEPT !.magic = "unknown"],
     [BaseFile EXCEPT !.magic = "pe"],
     [BaseFile EXCEPT !.class = 0],
     [BaseFile EXCEPT !.hdr_ok = FALSE],
     [BaseFile EXCEPT !.sections_ok = FALSE],
     [BaseFile EXCEPT !.dynamic = "bad"],
     [BaseFile EXCEPT !.dynamic = "none"],
     [BaseFile EXCEPT !.class = ELFCLASS32, !.dynamic = "none"]}

\* Every file with a dynamic section of at most MaxDyn entries.
\* Dynamic sections of the sample files, over Buf1.
NeedsAA == <<Dyn(DT_STRSZ, 5), Dyn(DT_NEEDED, 0), Dyn(DT_NEEDED, 0)>>
NeedsAB == <<Dyn(DT_STRSZ, 5), Dyn(DT_NEEDED, 0), Dyn(DT_NEEDED, 2)>>
NeedsB == <<Dyn(DT_STRTAB, 1), Dyn(DT_STRSZ, 5), Dyn(DT_NEEDED, BigVal),
            Dyn(DT_NEEDED, 2), Dyn(DT_NEEDED, 5)>>
NeedsMixed == <<Dyn(DT_STRSZ, 5), Dyn(DT_NEEDED, 0), Dyn(DT_NEEDED, BigVal),
                Dyn(DT_NEEDED, 5), Dyn(DT_NEEDED, 2), Dyn(DT_NEEDED, 0)>>
Overflows == <<Dyn(DT_STRTAB, U64Max), Dyn(DT_STRSZ, 1), Dyn(DT_NEEDED, 0)>>

\* The files a scanned directory is made of.

SampleFiles ==
    {[BaseFile EXCEPT !.entry_ok = FALSE],
     [BaseFile EXCEPT !.readable = FALSE],
     [BaseFile EXCEPT !.magic = "short", !.name_utf8 = FALSE],
     [BaseFile EXCEPT !.magic = "pe"],
     [BaseFile EXCEPT !.dynamic = "none"],
     ElfWith(ELFCLASS32, NeedsAB, Buf1),
     ElfWith(ELFCLASS64, NeedsAA, Buf1),
     ElfWith(ELFCLASS64, NeedsAB, Buf1),
     ElfWith(ELFCLASS64, NeedsB, Buf1),
     ElfWith(ELFCLASS64, Overflows, Buf1),
     [ElfWith(ELFCLASS64, NeedsAB, Buf1) EXCEPT !.name_utf8 = FALSE]}

\* Every file with a dynamic section of at most MaxDyn entries (one entry
\* less over Buf2 and in an ELF32 object), and the longer sample sections.
ExtractFiles ==
    BrokenFiles
        \cup {ElfWith(ELFCLASS64, d, Buf1) : d \in SeqUpTo(DynEntries, MaxDyn)}
        \cup {ElfWith(c, d, b) : c \in {ELFCLASS32, ELFCLASS64},
                                 d \in SeqUpTo(DynEntries, MaxDyn - 1),
                                 b \in Buffers}
        \cup {ElfWith(c, d, Buf1) : c \in {ELFCLASS32, ELFCLASS64},
                                    d \in {NeedsB, NeedsMixed, Overflows}}

\* The listings of a directory: the k-th entry is named k.
Named(s) == [k \in DOMAIN s |-> [s[k] EXCEPT !.name = k]]
Listings(S, n) == {Named(s) : s \in SeqUpTo(S, n)}

\* ------------------------------------------------------------ results
Ok(v) == [ok |-> TRUE, val |-> v, err |-> "none"]
Err(e) == [ok |-> FALSE, val |-> <<>>, err |-> e]
NoResult == Err("unset")
NoFile == [BaseFile EXCEPT !.name = 0]
NoTable == [start |-> 0, end |-> 0]


\* ------------------------------------------- the object crate's calls
\* A classification by the magic alone, the class byte not checked.
FileKind_parse_MagicOnly(f) ==
    CASE f.magic = "short" -> Err("Could not read file magic")
      [] f.magic = "elf" /\ f.class = ELFCLASS32 -> Ok("Elf32")
      [] f.magic = "elf" -> Ok("Elf64")
      [] f.magic = "pe" -> Ok("Pe64")
      [] OTHER -> Err("Unknown file magic")

\* object::FileKind::parse: the first 16 bytes decide the kind.
FileKind_parse(f) ==
    CASE f.magic = "short" -> Err("Could not read file magic")
      [] f.magic = "elf" /\ f.class = ELFCLASS32 -> Ok("Elf32")
      [] f.magic = "elf" /\ f.class = ELFCLASS64 -> Ok("Elf64")
      [] f.magic = "pe" -> Ok("Pe64")
      [] OTHER -> Err("Unknown file magic")

\* FileHeader64::parse: the header is read and is_supported() demands the
\* ELF magic, class ELFCLASS64, a known byte order and version.
FileHeader64_parse(f) ==
    IF f.hdr_ok /\ f.magic = "elf" /\ f.class = ELFCLASS64
    THEN Ok("header64")
    ELSE Err("ObjectReadError")

\* The header decode each arm of `match kind` performs.
ParseHeaderFor(kind, f) ==
    IF kind = "Elf32" THEN FileHeader64_parse(f) ELSE FileHeader64_parse(f)

\* header.sections(..)? then s.dynamic(..)?.ok_or(NoDynamic)?
FindDynamic(f) ==
    CASE ~f.sections_ok -> Err("ObjectReadError")
      [] f.dynamic = "bad" -> Err("ObjectReadError")
      [] f.dynamic = "none" -> Err("NoDynamic")
      [] OTHER -> Ok(f.dyn)

\* Dyn::tag32: the tag as u32, if it fits.
Tag32(e) == IF e.tag <= U32Max THEN e.tag ELSE -1

\* A conversion that truncates instead of failing (n as u32).
TryU32_Truncating(n) == n % (U32Max + 1)

\* u32::try_from(n).ok()
TryU32(n) == IF n <= U32Max THEN n ELSE -1

\* dt_strtab + dt_strsz on u64 in a build without overflow checks.
WrappingAdd(a, b) == (a + b) % (U64Max + 1)

\* StringTable::new(bin_data, start, end): the bounds are stored as given.
StringTable_new(start, end) == [start |-> start, end |-> end]

\* String::from_utf8_lossy on the bytes the model uses: ASCII is kept and
\* the invalid byte 0xFF becomes U+FFFD.
Utf8Lossy(bytes) ==
    [p \in DOMAIN bytes |-> IF bytes[p] >= 128 THEN 65533 ELSE bytes[p]]

\* data[from .. to), positions counted from 0.
Slice(data, from, to) == [p \in 1..(to - from) |-> data[from + p]]

\* StringTable::get: start.checked_add(offset), then
\* read_bytes_at_until(r_start..end, 0) on the whole buffer.
StringTable_get(data, tbl, offs) ==
    LET r_start == tbl.start + offs IN
    IF r_start > U64Max THEN Err("()")
    ELSE IF r_start > tbl.end \/ tbl.end > Len(data) THEN Err("()")
    ELSE LET bytes == Slice(data, r_start, tbl.end)
             nul == {p \in DOMAIN bytes : bytes[p] = 0}
         IN  IF nul = {} THEN Err("()")
             ELSE Ok(SubSeq(bytes, 1, (CHOOSE p \in nul : \A q \in nul : p <= q) - 1))

\* A push that skips a file the list already ends with.
PushDependent_Dedup(m, lib, file) ==
    IF lib \in DOMAIN m
    THEN IF m[lib] # <<>> /\ m[lib][Len(m[lib])] = file THEN m
         ELSE [m EXCEPT ![lib] = Append(@, file)]
    ELSE [l \in DOMAIN m \cup {lib} |-> IF l = lib THEN <<file>> ELSE m[l]]

\* lib_map.entry(lib).or_default().push(file)
PushDependent(m, lib, file) ==
    IF lib \in DOMAIN m
    THEN [m EXCEPT ![lib] = Append(@, file)]
    ELSE [l \in DOMAIN m \cup {lib} |-> IF l = lib THEN <<file>> ELSE m[l]]

\* An insertion that orders by descending length.
RECURSIVE InsertByKey_Descending(_, _)
InsertByKey_Descending(sorted, p) ==
    IF sorted = <<>> THEN <<p>>
    ELSE IF Len(Head(sorted).exes) >= Len(p.exes)
         THEN <<Head(sorted)>> \o InsertByKey_Descending(Tail(sorted), p)
         ELSE <<p>> \o sorted

\* Vec::sort_by_key(|p| p.1.len()): a stable sort, here by insertion.
RECURSIVE InsertByKey(_, _)
InsertByKey(sorted, p) ==
    IF sorted = <<>> THEN <<p>>
    ELSE IF Len(Head(sorted).exes) <= Len(p.exes)
         THEN <<Head(sorted)>> \o InsertByKey(Tail(sorted), p)
         ELSE <<p>> \o sorted

\* The list left in the map's iteration order.
SortByKey_Unsorted(list) == list

RECURSIVE SortByKey(_)
SortByKey(list) ==
    IF list = <<>> THEN <<>>
    ELSE InsertByKey(SortByKey(SubSeq(list, 1, Len(list) - 1)), list[Len(list)])

\* HashMap::into_iter().collect(): the pairs of the map in some order.
IterOrders(m) ==
    {o \in [1..Cardinality(DOMAIN m) -> DOMAIN m] :
        \A a, b \in DOMAIN o : a # b => o[a] # o[b]}
Collect(m, o) == [k \in DOMAIN o |-> [lib |-> o[k], exes |-> m[o[k]]]]

EmptyMap == [l \in {} |-> <<>>]

\* -------------------------------------------------------------- state
VARIABLES
    env,         \* the build and the log level: fixed for a run
    bin_paths,   \* the entries read_dir has still to yield
    pc,          \* where main is
    cur,         \* dir_entry, with the file behind it
    hdr_parsed,  \* a FileHeader parse was called on the current file
    next_dyn,    \* entries of dyn_sec.0 the first loop has consumed
    libs_offs,
    dt_strtab,
    dt_strsz,
    str_table,
    next_off,    \* elements of libs_offs the second loop has consumed
    libs,
    result,      \* what get_needed_libs returned
    next_lib,    \* elements of the returned libs main has folded
    lib_map,
    records,     \* (file name, libs) of every Ok(libs) main has folded
    lib_list,
    out          \* the blocks printed so far

vars == <<env, bin_paths, pc, cur, hdr_parsed, next_dyn, libs_offs, dt_strtab,
          dt_strsz, str_table, next_off, libs, result, next_lib, lib_map,
          records, lib_list, out>>

fileVars == <<hdr_parsed, next_dyn, libs_offs, dt_strtab, dt_strsz, str_table,
              next_off, libs>>
reportVars == <<lib_map, records, lib_list, out>>

InitWith(listing, overflow_checks, max_level) ==
    /\ env = [overflow_checks |-> overflow_checks, max_level |-> max_level]
    /\ bin_paths = listing
    /\ pc = "list"
    /\ cur = NoFile
    /\ hdr_parsed = FALSE
    /\ next_dyn = 0
    /\ libs_offs = <<>>
    /\ dt_strtab = 0
    /\ dt_strsz = 0
    /\ str_table = NoTable
    /\ next_off = 0
    /\ libs = <<>>
    /\ result = NoResult
    /\ next_lib = 0
    /\ lib_map = EmptyMap
    /\ records = <<>>
    /\ lib_list = <<>>
    /\ out = <<>>

\* The levels tracing_subscriber::fmt::init() can leave enabled: it reads
\* RUST_LOG, and without it enables up to ERROR or up to INFO.
LogLevels == {"ERROR", "INFO", "DEBUG"}
WarnEnabled(level) == level \in {"INFO", "DEBUG"}
DebugEnabled(level) == level = "DEBUG"

\* A directory of up to MaxFiles sample files, in either build and at any
\* log level.
Init ==
    \E l \in Listings(SampleFiles, MaxFiles), oc \in BOOLEAN, lv \in LogLevels :
        InitWith(l, oc, lv)

\* A directory holding one file, its dynamic section drawn from every
\* sequence of at most MaxDyn entries.
InitExtract ==
    \E f \in ExtractFiles, oc \in BOOLEAN : InitWith(Named(<<f>>), oc, "INFO")

\* ------------------------------------------------------------ actions
\* fs::read_dir(..).expect("Could not list binaries")
ListDir ==
    /\ pc = "list"
    /\ \E listed \in BOOLEAN : pc' = IF listed THEN "next" ELSE "fatal"
    /\ UNCHANGED <<env, bin_paths, cur, result, next_lib>>
    /\ UNCHANGED fileVars
    /\ UNCHANGED reportVars

\* for dir_entry in bin_paths: the next entry, its Err arm, and debug!'s
\* filename.to_str().unwrap(), evaluated when the debug level is enabled.
NextEntry ==
    /\ pc = "next"
    /\ bin_paths # <<>>
    /\ bin_paths' = Tail(bin_paths)
    /\ LET e == Head(bin_paths) IN
        /\ cur' = e
        /\ pc' = IF ~e.entry_ok THEN "next"
                 ELSE IF DebugEnabled(env.max_level) /\ ~e.name_utf8 THEN "panic_unwrap"
                 ELSE "read"
    /\ hdr_parsed' = FALSE
    /\ next_dyn' = 0
    /\ libs_offs' = <<>>
    /\ dt_strtab' = 0
    /\ dt_strsz' = 0
    /\ str_table' = NoTable
    /\ next_off' = 0
    /\ libs' = <<>>
    /\ result' = NoResult
    /\ next_lib' = 0
    /\ UNCHANGED env
    /\ UNCHANGED reportVars

\* get_needed_libs: fs::read(path).map_err(IoError)?
ReadFile ==
    /\ pc = "read"
    /\ IF cur.readable
       THEN pc' = "kind" /\ UNCHANGED result
       ELSE pc' = "handle" /\ result' = Err("IoError")
    /\ UNCHANGED <<env, bin_paths, cur, next_lib>>
    /\ UNCHANGED fileVars
    /\ UNCHANGED reportVars

\* get_needed_libs: FileKind::parse and the arm of `match kind` it selects.
ParseKind ==
    /\ pc = "kind"
    /\ LET kind == FileKind_parse(cur) IN
        IF ~kind.ok
        THEN pc' = "handle" /\ result' = Err("ObjectReadError")
        ELSE IF kind.val \in {"Elf32", "Elf64"}
             THEN pc' = "header" /\ UNCHANGED result
             ELSE pc' = "handle" /\ result' = Err("NotElf")
    /\ UNCHANGED <<env, bin_paths, cur, next_lib>>
    /\ UNCHANGED fileVars
    /\ UNCHANGED reportVars

\* get_needed_libs: the header parse of the Elf32 and Elf64 arms.  After
\* a successful parse the byte order is known, so endian().unwrap() holds.
ParseHeader ==
    /\ pc = "header"
    /\ hdr_parsed' = TRUE
    /\ IF ParseHeaderFor(FileKind_parse(cur).val, cur).ok
       THEN pc' = "sections" /\ UNCHANGED result
       ELSE pc' = "handle" /\ result' = Err("ObjectReadError")
    /\ UNCHANGED <<env, bin_paths, cur, next_dyn, libs_offs, dt_strtab,
                   dt_strsz, str_table, next_off, libs, next_lib>>
    /\ UNCHANGED reportVars

\* extract_libs: header.sections and s.dynamic.
LocateDynamic ==
    /\ pc = "sections"
    /\ LET d == FindDynamic(cur) IN
        IF d.ok
        THEN pc' = "scan" /\ UNCHANGED result
        ELSE pc' = "handle" /\ result' = Err(d.err)
    /\ UNCHANGED <<env, bin_paths, cur, next_lib>>
    /\ UNCHANGED fileVars
    /\ UNCHANGED reportVars

\* The entries the first loop of extract_libs iterates: dyn_sec.0.
DynSec(f) == f.dyn

\* extract_libs: one iteration of `for dyn_element in dyn_sec.0`.
ScanEntry ==
    /\ pc = "scan"
    /\ next_dyn < Len(DynSec(cur))
    /\ next_dyn' = next_dyn + 1
    /\ LET dyn_element == DynSec(cur)[next_dyn + 1]
           tag32 == Tag32(dyn_element)
       IN
        /\ libs_offs' = IF tag32 = DT_NEEDED
                        THEN Append(libs_offs, dyn_element.val)
                        ELSE libs_offs
        /\ dt_strtab' = IF tag32 = DT_STRTAB THEN dyn_element.val ELSE dt_strtab
        /\ dt_strsz' = IF tag32 = DT_STRSZ THEN dyn_element.val ELSE dt_strsz
    /\ UNCHANGED <<env, bin_paths, pc, cur, hdr_parsed, str_table, next_off,
                   libs, result, next_lib>>
    /\ UNCHANGED reportVars

\* extract_libs: StringTable::new(bin_data, dt_strtab, dt_strtab + dt_strsz).
\* The u64 addition panics on overflow in a build with overflow checks and
\* wraps in a build without.
BuildStrTable ==
    /\ pc = "scan"
    /\ next_dyn = Len(DynSec(cur))
    /\ IF dt_strtab + dt_strsz > U64Max /\ env.overflow_checks
       THEN pc' = "panic_overflow" /\ UNCHANGED str_table
       ELSE /\ pc' = "resolve"
            /\ str_table' = StringTable_new(dt_strtab, WrappingAdd(dt_strtab, dt_strsz))
    /\ UNCHANGED <<env, bin_paths, cur, hdr_parsed, next_dyn, libs_offs,
                   dt_strtab, dt_strsz, next_off, libs, result, next_lib>>
    /\ UNCHANGED reportVars

\* The name one iteration of the second loop pushes, if any.
ResolveName(data, tbl, n) ==
    LET offs == TryU32(n) IN
    IF offs < 0 THEN Err("u32")
    ELSE LET name == StringTable_get(data, tbl, offs) IN
         IF name.ok THEN Ok(Utf8Lossy(name.val)) ELSE Err("lookup")

\* extract_libs: one iteration of `for offs in libs_offs`.
ResolveOffset ==
    /\ pc = "resolve"
    /\ next_off < Len(libs_offs)
    /\ next_off' = next_off + 1
    /\ LET name == ResolveName(cur.data, str_table, libs_offs[next_off + 1]) IN
        libs' = IF name.ok THEN Append(libs, name.val) ELSE libs
    /\ UNCHANGED <<env, bin_paths, pc, cur, hdr_parsed, next_dyn, libs_offs,
                   dt_strtab, dt_strsz, str_table, result, next_lib>>
    /\ UNCHANGED reportVars

\* extract_libs: Ok(libs)
ReturnLibs ==
    /\ pc = "resolve"
    /\ next_off = Len(libs_offs)
    /\ pc' = "handle"
    /\ result' = Ok(libs)
    /\ UNCHANGED <<env, bin_paths, cur, next_lib>>
    /\ UNCHANGED fileVars
    /\ UNCHANGED reportVars

\* main: the Err arm of `match get_needed_libs(..)`; warn!, when enabled,
\* evaluates dir_entry.file_name().to_str().unwrap().
HandleErr ==
    /\ pc = "handle"
    /\ ~result.ok
    /\ pc' = IF WarnEnabled(env.max_level) /\ ~cur.name_utf8
             THEN "panic_unwrap"
             ELSE "next"
    /\ UNCHANGED <<env, bin_paths, cur, result, next_lib>>
    /\ UNCHANGED fileVars
    /\ UNCHANGED reportVars

\* The map after `lib_map.entry(lib).or_default()` alone.
EntryOrDefault(m, lib) ==
    IF lib \in DOMAIN m THEN m
    ELSE [l \in DOMAIN m \cup {lib} |-> IF l = lib THEN <<>> ELSE m[l]]

\* main: one iteration of `for lib in libs` in the Ok arm; the entry is
\* created before filename.to_str().unwrap() is evaluated.
FoldLib ==
    /\ pc = "handle"
    /\ result.ok
    /\ next_lib < Len(result.val)
    /\ LET lib == result.val[next_lib + 1] IN
        IF cur.name_utf8
        THEN /\ lib_map' = PushDependent(lib_map, lib, cur.name)
             /\ next_lib' = next_lib + 1
             /\ pc' = pc
        ELSE /\ lib_map' = EntryOrDefault(lib_map, lib)
             /\ pc' = "panic_unwrap"
             /\ UNCHANGED next_lib
    /\ UNCHANGED <<env, bin_paths, cur, result, records, lib_list, out>>
    /\ UNCHANGED fileVars

\* main: the Ok arm is done with its libs.
FoldDone ==
    /\ pc = "handle"
    /\ result.ok
    /\ next_lib = Len(result.val)
    /\ pc' = "next"
    /\ records' = Append(records, [file |-> cur.name, libs |-> result.val])
    /\ UNCHANGED <<env, bin_paths, cur, result, next_lib, lib_map, lib_list, out>>
    /\ UNCHANGED fileVars

\* main: lib_map.into_iter().collect() and sort_by_key, once read_dir is
\* exhausted.
SortReport ==
    /\ pc = "next"
    /\ bin_paths = <<>>
    /\ \E o \in IterOrders(lib_map) : lib_list' = SortByKey(Collect(lib_map, o))
    /\ pc' = "print"
    /\ UNCHANGED <<env, bin_paths, cur, result, next_lib, lib_map, records, out>>
    /\ UNCHANGED fileVars

\* main: one iteration of `for (lib, exes) in lib_list`.
PrintBlock ==
    /\ pc = "print"
    /\ lib_list # <<>>
    /\ out' = Append(out, [lib |-> Head(lib_list).lib,
                           count |-> Len(Head(lib_list).exes),
                           exes |-> Head(lib_list).exes])
    /\ lib_list' = Tail(lib_list)
    /\ UNCHANGED <<env, bin_paths, pc, cur, result, next_lib, lib_map, records>>
    /\ UNCHANGED fileVars

\* main returns.
Exit ==
    /\ pc = "print"
    /\ lib_list = <<>>
    /\ pc' = "done"
    /\ UNCHANGED <<env, bin_paths, cur, result, next_lib>>
    /\ UNCHANGED fileVars
    /\ UNCHANGED reportVars

Next ==
    \/ ListDir
    \/ NextEntry
    \/ ReadFile
    \/ ParseKind
    \/ ParseHeader
    \/ LocateDynamic
    \/ ScanEntry
    \/ BuildStrTable
    \/ ResolveOffset
    \/ ReturnLibs
    \/ HandleErr
    \/ FoldLib
    \/ FoldDone
    \/ SortReport
    \/ PrintBlock
    \/ Exit

Spec == Init /\ [][Next]_vars
SpecExtract == InitExtract /\ [][Next]_vars

\* ------------------------------------------------- what claims refer to
Crashed == pc \in {"panic_overflow", "panic_unwrap"}
Returned == pc = "handle"
ReturnedOk == pc = "handle" /\ result.ok
Finalized == pc \in {"print", "done"}

Range(s) == {s[k] : k \in DOMAIN s}
IsPrefix(s, t) == Len(s) <= Len(t) /\ SubSeq(t, 1, Len(s)) = s
IsNeeded(e) == e.tag = DT_NEEDED
HasTag(dyn, t) == \E k \in DOMAIN dyn : dyn[k].tag = t

\* The value of the last entry of dyn tagged t, or 0 when there is none.
LastVal(dyn, t) ==
    LET at == {k \in DOMAIN dyn : dyn[k].tag = t} IN
    IF at = {} THEN 0 ELSE dyn[CHOOSE k \in at : \A j \in at : j <= k].val

TableStart(dyn) == LastVal(dyn, DT_STRTAB)
TableEnd(dyn) == (LastVal(dyn, DT_STRTAB) + LastVal(dyn, DT_STRSZ)) % (2 ^ U64Bits)

\* Positions (from 0) of the null bytes of data in [from, to).
NullsIn(data, from, to) ==
    {q \in from..(to - 1) : q < Len(data) /\ data[q + 1] = 0}

\* The entry's offset fits u32 and names a null-terminated string that
\* lies inside the table, the table lying inside the buffer.
Resolvable(e, dyn, data) ==
    /\ e.val < 2 ^ U32Bits
    /\ TableEnd(dyn) <= Len(data)
    /\ TableStart(dyn) + e.val < TableEnd(dyn)
    /\ NullsIn(data, TableStart(dyn) + e.val, TableEnd(dyn)) # {}

\* The string at the entry's offset, decoded lossily.
NameOf(e, dyn, data) ==
    LET from == TableStart(dyn) + e.val
        nuls == NullsIn(data, from, TableEnd(dyn))
        stop == CHOOSE q \in nuls : \A r \in nuls : q <= r
    IN  [p \in 1..(stop - from) |->
            IF data[from + p] < 128 THEN data[from + p] ELSE 65533]

\* The names of the resolvable DT_NEEDED entries of dyn, in entry order.
ExpectedLibs(dyn, data) ==
    LET Good(e) == IsNeeded(e) /\ Resolvable(e, dyn, data)
        good == SelectSeq(dyn, Good)
    IN  [k \in DOMAIN good |-> NameOf(good[k], dyn, data)]

\* C1: when extract_libs returns, its list is exactly the names of the
\* DT_NEEDED entries in entry order, duplicates kept, leaving out only the
\* entries whose value does not fit u32 or whose lookup fails; if every
\* DT_NEEDED entry resolves, there are as many names as DT_NEEDED entries.
C1_NamesInEntryOrder ==
    ReturnedOk =>
        /\ result.val = ExpectedLibs(cur.dyn, cur.data)
        /\ (\A k \in DOMAIN cur.dyn :
                IsNeeded(cur.dyn[k]) => Resolvable(cur.dyn[k], cur.dyn, cur.data))
            => Len(result.val) = Len(SelectSeq(cur.dyn, IsNeeded))

\* A section with a repeated offset, an offset too wide for u32 and an
\* offset at the table's end has returned "a", "<U+FFFD>b", "a".
C1_Witness ==
    /\ ReturnedOk
    /\ cur.dyn = NeedsMixed
    /\ result.val = <<(<<97>>), (<<65533, 98>>), (<<97>>)>>

\* The string table view exists: StringTable::new has run for the file.
TableBuilt == pc = "resolve" \/ (pc = "handle" /\ result.ok)

\* C6: for every DT_STRTAB / DT_STRSZ pair the view satisfies
\* start <= end <= buffer length, building it never crashes, and an offset
\* at or past the end, or without a terminator, is skipped.
C6_ViewInBounds ==
    /\ TableBuilt => (str_table.start <= str_table.end
                        /\ str_table.end <= Len(cur.data))
    /\ pc # "panic_overflow"
    /\ ReturnedOk =>
        \A k \in DOMAIN cur.dyn :
            (/\ IsNeeded(cur.dyn[k])
             /\ \/ str_table.start + cur.dyn[k].val >= str_table.end
                \/ str_table.start + cur.dyn[k].val >= Len(cur.data)
                \/ NullsIn(cur.data, str_table.start + cur.dyn[k].val,
                           str_table.end) = {})
            => Len(result.val) < Len(SelectSeq(cur.dyn, IsNeeded))

\* The entries before the first DT_NULL entry.
BeforeTerminator(dyn) ==
    LET nulls == {k \in DOMAIN dyn : dyn[k].tag = DT_NULL} IN
    IF nulls = {} THEN dyn
    ELSE SubSeq(dyn, 1, (CHOOSE k \in nulls : \A j \in nulls : k <= j) - 1)

\* C9: the scan stops at the first DT_NULL entry or at the end of the
\* section: the returned list is that of the entries before the first
\* DT_NULL, and no entry past the section's length is decoded.
C9_StopsAtTerminator ==
    /\ next_dyn <= Len(cur.dyn)
    /\ ReturnedOk =>
        result.val = ExpectedLibs(BeforeTerminator(cur.dyn), cur.data)

\* C10: without a DT_STRTAB or without a DT_STRSZ entry the table has
\* length 0 and the returned list is empty; with both, the last DT_STRTAB
\* is the start and the last DT_STRSZ the size.
C10_MissingBoundsEmptyTable ==
    ReturnedOk =>
        IF HasTag(cur.dyn, DT_STRTAB) /\ HasTag(cur.dyn, DT_STRSZ)
        THEN /\ str_table.start = LastVal(cur.dyn, DT_STRTAB)
             /\ str_table.end - str_table.start = LastVal(cur.dyn, DT_STRSZ)
        ELSE /\ str_table.end - str_table.start = 0
             /\ result.val = <<>>

\* A readable ELF object of either class with sound header, section table
\* and dynamic section.
WellFormedElf(f) ==
    /\ f.readable
    /\ f.magic = "elf"
    /\ f.class \in {ELFCLASS32, ELFCLASS64}
    /\ f.hdr_ok
    /\ f.sections_ok
    /\ f.dynamic = "some"

\* C7: a well-formed object of either class with a dynamic section yields
\* Ok from get_needed_libs.
C7_BothClassesDecoded ==
    (Returned /\ WellFormedElf(cur)) => result.ok

\* The leading bytes of the file are the ELF32 or the ELF64 signature.
ElfSignature(f) == f.magic = "elf" /\ f.class \in {ELFCLASS32, ELFCLASS64}

\* C8 as stated: a readable buffer without the ELF32/ELF64 signature yields
\* HandleError::NotElf, and no header parse was attempted.
C8_NotElfForEveryNonElf ==
    (Returned /\ cur.readable /\ ~ElfSignature(cur)) =>
        (~result.ok /\ result.err = "NotElf" /\ ~hdr_parsed)

\* C8 as amended: such a buffer yields an error and no header parse is
\* attempted; the error is NotElf for a recognized non-ELF format and
\* ObjectReadError for a buffer too short or of unrecognized magic.
C8_ErrorWithoutHeaderParse ==
    (Returned /\ cur.readable /\ ~ElfSignature(cur)) =>
        /\ ~result.ok
        /\ ~hdr_parsed
        /\ result.err = IF cur.magic = "pe" THEN "NotElf" ELSE "ObjectReadError"

\* A file too short for the magic was skipped with ObjectReadError.
C8_Witness ==
    /\ Returned
    /\ cur.readable
    /\ cur.magic = "short"
    /\ result.err = "ObjectReadError"
    /\ ~hdr_parsed

\* ----------------------------------------------------- the aggregator
Occurrences(list, x) == Cardinality({k \in DOMAIN list : list[k] = x})
Repeat(x, n) == [k \in 1..n |-> x]
LibsOf(recs) == UNION {Range(recs[k].libs) : k \in DOMAIN recs}

\* The files of recs in order, each once per occurrence of lib in its list.
RECURSIVE ExpectedDependents(_, _)
ExpectedDependents(recs, lib) ==
    IF recs = <<>> THEN <<>>
    ELSE ExpectedDependents(SubSeq(recs, 1, Len(recs) - 1), lib)
            \o Repeat(recs[Len(recs)].file, Occurrences(recs[Len(recs)].libs, lib))

\* The report: the blocks printed and the blocks still to print.
Report == [k \in 1..(Len(out) + Len(lib_list)) |->
            IF k <= Len(out) THEN [lib |-> out[k].lib, exes |-> out[k].exes]
            ELSE lib_list[k - Len(out)]]

\* C2: no per-file condition terminates the scan, a failing file adds
\* nothing to the index, and the finished report holds every dependency of
\* every file that parsed.
C2_ScanNeverAborts ==
    /\ ~Crashed
    /\ (Returned /\ ~result.ok) =>
        \A lib \in DOMAIN lib_map : cur.name \notin Range(lib_map[lib])
    /\ pc = "done" =>
        \A k \in DOMAIN records : \A lib \in Range(records[k].libs) :
            \E b \in DOMAIN out :
                out[b].lib = lib /\ records[k].file \in Range(out[b].exes)

\* C3: between files the index maps every library of the folded records,
\* and no other, to the files that list it, in processing order and once
\* per occurrence; and no step removes a key or changes a list other than
\* by extending it.
C3_IndexIsFoldOfRecords ==
    /\ [](pc = "next" =>
            /\ DOMAIN lib_map = LibsOf(records)
            /\ \A lib \in DOMAIN lib_map :
                lib_map[lib] = ExpectedDependents(records, lib))
    /\ [][\A lib \in DOMAIN lib_map :
            lib \in DOMAIN lib_map' /\ IsPrefix(lib_map[lib], lib_map'[lib])]_vars

\* A library has a file that lists it twice and a later, different file.
C3_Witness ==
    /\ pc = "next"
    /\ \E lib \in DOMAIN lib_map :
        /\ Len(lib_map[lib]) >= 3
        /\ lib_map[lib][1] = lib_map[lib][2]
        /\ lib_map[lib][3] # lib_map[lib][1]

\* C4: the report has one block per library of the index, in ascending
\* order of the number of dependents; a printed count is the length of the
\* block's list, which is the index's list unchanged; the sort happens
\* after the last directory entry and the index is not modified afterwards.
C4_ReportSortedByCount ==
    /\ [](Finalized =>
            /\ bin_paths = <<>>
            /\ Len(Report) = Cardinality(DOMAIN lib_map)
            /\ {Report[k].lib : k \in DOMAIN Report} = DOMAIN lib_map
            /\ \A k \in DOMAIN Report : Report[k].exes = lib_map[Report[k].lib]
            /\ \A k \in 1..(Len(Report) - 1) :
                Len(Report[k].exes) <= Len(Report[k + 1].exes)
            /\ \A k \in DOMAIN out : out[k].count = Len(lib_map[out[k].lib]))
    /\ [][Finalized => (Finalized' /\ lib_map' = lib_map)]_vars

\* A finished report whose second block has more dependents than its first
\* and lists two different files.
C4_Witness ==
    /\ pc = "done"
    /\ Len(out) >= 2
    /\ out[1].count < out[2].count
    /\ \E a, b \in DOMAIN out[2].exes : out[2].exes[a] # out[2].exes[b]

\* The libraries of recs in the order of their first insertion.
Flatten(recs) ==
    LET RECURSIVE Go(_)
        Go(r) == IF r = <<>> THEN <<>>
                 ELSE Go(SubSeq(r, 1, Len(r) - 1)) \o r[Len(r)].libs
    IN  Go(recs)
FirstInsertion(recs, lib) ==
    LET all == Flatten(recs) IN
    CHOOSE k \in DOMAIN all : all[k] = lib /\ \A j \in 1..(k - 1) : all[j] # lib
PositionIn(report, lib) == CHOOSE k \in DOMAIN report : report[k].lib = lib

\* C5 as stated: the block order is a function of the records: libraries
\* with equally many dependents appear in the order of first insertion.
C5_TiesInInsertionOrder ==
    Finalized =>
        \A a, b \in DOMAIN Report :
            (a < b /\ Len(Report[a].exes) = Len(Report[b].exes))
            => FirstInsertion(records, Report[a].lib)
                   < FirstInsertion(records, Report[b].lib)

\* C5 as amended: the records determine the block order between libraries
\* of different counts only: the library with fewer dependents comes first.
C5_OrderDeterminedUpToTies ==
    Finalized =>
        \A x, y \in DOMAIN lib_map :
            Len(ExpectedDependents(records, x)) < Len(ExpectedDependents(records, y))
            => PositionIn(Report, x) < PositionIn(Report, y)

\* Two libraries with equally many dependents are reported against the
\* order of their insertion, ahead of a library with more dependents.
C5_Witness ==
    /\ pc = "done"
    /\ \E a, b, c \in DOMAIN out :
        /\ a < b /\ b < c
        /\ out[a].count = out[b].count
        /\ out[b].count < out[c].count
        /\ FirstInsertion(records, out[b].lib) < FirstInsertion(records, out[a].lib)

============================================================================
